---- MODULE Spec2Model ----
(***************************************************************************)
(* Storage adapters of fabioespinosa/core: the two-namespace               *)
(* FileStorageAdapter (contracts/ + shards/), the single-directory         *)
(* FileStorageAdapter and the BucketStorageAdapter (LevelDB + S3 bucket).  *)
(* Every asynchronous callback of an operation is one action; the streams  *)
(* handed out by _get are driven by their own actions.                     *)
(***************************************************************************)
EXTENDS Integers, Sequences, FiniteSets, TLC

\* ---------------------------------------------------------------- bounds
MaxKey == 2          \* logical keys are 1..MaxKey
MaxValue == 2        \* caller-supplied field values are 1..MaxValue
MaxLen == 2          \* payloads have 1..MaxLen bytes
MaxOps == 2          \* operation slots (calls in flight)
MaxHandles == 1      \* streams the sequential caller holds at once
MaxWriters == 2      \* streams concurrent callers hold at once
MaxPages == 3        \* pages of one listing of the bucket
MaxObjects == 2      \* objects on one page
MaxLevel == 6        \* largest magnitude of a level handed to logLevelName

Keys == 1..MaxKey
Values == 1..MaxValue
OpIds == 1..MaxOps
HandleIds == 1..(IF MaxWriters > MaxHandles THEN MaxWriters ELSE MaxHandles)

\* One payload of every length; the bytes of the payload of length n are n.
Payloads == { [i \in 1..n |-> n] : n \in 1..MaxLen }

\* The backend variants.
FS2 == "fs2"         \* FileStorageAdapter with contracts/ and shards/
FS1 == "fs1"         \* FileStorageAdapter with one directory
BUCKET == "bucket"   \* BucketStorageAdapter
Backends == {FS2, FS1, BUCKET}

\* ------------------------------------------------------- key derivation
\* utils.rmd160(key, 'hex'): a deterministic, injective map without fixed
\* points from logical keys to physical keys.  Logical keys are digests
\* themselves, so the physical key of one logical key may be the logical
\* key of another (here: Derive(1) = 2).
Derive(k) == k + 1

\* A physical key that is neither a logical key nor derived from one: the
\* fskey of a record that an earlier key scheme has written.
ForeignFskey == Derive(MaxKey) + 1

PhysKeys == Keys \cup { Derive(k) : k \in Keys } \cup {ForeignFskey}

\* --------------------------------------------------------------- values
\* Caller items: the caller-supplied field, an optional fskey (0: none)
\* and the shard field, null or a Buffer of payload bytes.
NoFskey == 0
Items == [value : Values, fskey : {NoFskey}, shard : {"null", "buffer"}]

\* JSON.stringify of a shard field: null stays null, a Buffer becomes the
\* object {type: 'Buffer', data: [...]} that carries the payload bytes.
JsonOfShard(s) == IF s = "buffer" THEN "bufferjson" ELSE s

\* JSON.stringify(item): the persisted text of a record.
JsonStringify(item) ==
  [value |-> item.value, fskey |-> item.fskey, shard |-> JsonOfShard(item.shard)]

\* JSON.parse(text): the object read back; a Buffer does not come back as a
\* Buffer but as the plain object that JSON.stringify made of it.
JsonParse(text) ==
  [value |-> text.value, fskey |-> text.fskey, shard |-> text.shard]

NoText == [value |-> 0, fskey |-> NoFskey, shard |-> "none"]
NoRec == [exists |-> FALSE, text |-> NoText]
Rec(text) == [exists |-> TRUE, text |-> text]

NoShard == [exists |-> FALSE, data |-> <<>>]
Shard(d) == [exists |-> TRUE, data |-> d]

\* Results handed to callbacks.
NoItem == [value |-> 0, fskey |-> NoFskey, shard |-> "none", h |-> 0]
ItemOf(obj, h) == [value |-> obj.value, fskey |-> obj.fskey, shard |-> obj.shard, h |-> h]
\* (size: the byte count a _size call reports; NoSize: none.)
NoSize == -1
Cb(err, item, ks) == [err |-> err, item |-> item, keys |-> ks, size |-> NoSize]
CbErr(err) == Cb(err, NoItem, {})
CbOk == Cb("null", NoItem, {})

IsNotFound(err) == err \in {"ENOENT", "NotFound"}

\* Errors of the backends other than not-found: a failing disk, a failing
\* connection to the object store.
TransportErrs == {"EIO", "Timeout"}

\* ---------------------------------------------------------------- state
VARIABLES
  backend,    \* which adapter this instance is
  isOpen,     \* this._isOpen / the LevelDB handle is open
  lastConn,   \* the last _open or _close that has changed the connection:
              \* "open", "close", or "none" since construction
  dirs,       \* filesystem: do contracts/ and shards/ exist
  contracts,  \* metadata namespace: logical key -> persisted record
  shards,     \* shard namespace: physical key -> payload
  ops,        \* calls in flight and their callback results
  handles,    \* streams returned by _get
  hist,       \* per key, what the caller has seen succeed last: st, the
              \* last successful call that created or removed the record;
              \* value, the field value of that put; wrote, whether a
              \* shard write through a stream of get has completed since
  lastWrite,  \* the caller's latest steps, while nothing else has happened:
              \* h, the stream the last get has returned (0: none), or
              \* key and data of the shard write that has just completed
              \* on such a stream, or dropped, the key of such a stream
              \* that the caller has let go without writing; event, what
              \* the stream whose upload has just ended has emitted
  listing,    \* one call of _getBucketSize: its arguments, the pages the
              \* object store holds, and the locals of the call
  logger      \* one call of logLevelName: its argument, the position of
              \* the filter over the level names, and what it returns

vars == <<backend, listing, logger, isOpen, lastConn, dirs, contracts, shards, ops, handles, hist, lastWrite>>

\* (given: the item as the caller held it when it called put; arg: the same
\* object as the call has left it.)
IdleOp ==
  [kind |-> "none", pc |-> "idle", key |-> 0, given |-> NoText, arg |-> NoText,
   text |-> NoText, fskey |-> 0, flag |-> FALSE, cb |-> <<>>]

FreeHandle ==
  [st |-> "free", mode |-> "-", key |-> 0, pkey |-> 0, data |-> <<>>,
   attached |-> FALSE]

NoHist == [st |-> "none", value |-> 0, wrote |-> FALSE]
PutHist(v) == [st |-> "put", value |-> v, wrote |-> FALSE]
DelHist(h) == [st |-> "deleted", value |-> 0, wrote |-> h.wrote]
FlushHist == [k \in Keys |-> [st |-> "flushed", value |-> 0, wrote |-> FALSE]]

NoEvent == [name |-> "none", arg |-> "null"]
NoWrite == [h |-> 0, key |-> 0, data |-> <<>>, dropped |-> 0, event |-> NoEvent]

\* No call of _getBucketSize is watched.
\* A JavaScript value handed to logLevelName: a number or a string of digits.
Num(n) == [type |-> "number", n |-> n]

NoLogCall == [level |-> Num(0), i |-> 0, result |-> <<>>, pc |-> "idle", ret |-> "none"]

NoListing ==
  [variant |-> "none", prefix |-> FALSE, pages |-> <<>>, pc |-> "idle",
   numObjects |-> 0, totalBytes |-> 0, reqs |-> <<>>, cb |-> <<>>]

\* A store that predates the fskey scheme: key 1 has a record without fskey,
\* and its shard, if uploaded, sits under the logical key itself.
LegacyText == [value |-> 1, fskey |-> NoFskey, shard |-> "null"]

InitStores ==
  { <<[k \in Keys |-> NoRec], [p \in PhysKeys |-> NoShard]>>,
    <<[k \in Keys |-> IF k = 1 THEN Rec(LegacyText) ELSE NoRec],
      [p \in PhysKeys |-> NoShard]>>,
    <<[k \in Keys |-> IF k = 1 THEN Rec(LegacyText) ELSE NoRec],
      [p \in PhysKeys |-> IF p = 1 THEN Shard(<<1>>) ELSE NoShard]>> }

Init ==
  /\ backend \in Backends
  /\ isOpen = TRUE
  /\ lastConn = "none"
  /\ dirs = [c |-> TRUE, s |-> TRUE]
  /\ \E st \in InitStores :
       /\ (backend = FS1 => st[1] = [k \in Keys |-> NoRec])
       /\ contracts = st[1]
       /\ shards = st[2]
  /\ ops = [o \in OpIds |-> IdleOp]
  /\ handles = [h \in HandleIds |-> FreeHandle]
  /\ hist = [k \in Keys |->
       IF contracts[k].exists THEN [NoHist EXCEPT !.st = "pre"] ELSE NoHist]
  /\ lastWrite = NoWrite
  /\ listing = NoListing
  /\ logger = NoLogCall

\* ------------------------------------------------------------ scheduling
Busy(o) == ops[o].pc # "idle"

\* A new call takes the lowest slot that holds no call in flight.
FreeSlot(o) == ~Busy(o) /\ \A q \in OpIds : q < o => Busy(q)

\* No call is in flight: the caller issues its calls one after the other.
Quiet == \A o \in OpIds : ~Busy(o)

\* A call that has invoked its callback for the last time is "done": it
\* shows its kind, its key, the caller's item and the callback invocations
\* until control returns to the caller.
Done(op) == [op EXCEPT !.pc = "done", !.text = NoText, !.fskey = 0]

Finish(o, cb) == Done([ops[o] EXCEPT !.cb = Append(@, cb)])

\* LevelDB refuses every call while the database is closed.
DbClosed == backend = BUCKET /\ ~isOpen

\* The error of reading a metadata record that is not there.
MissingErr == IF backend = BUCKET THEN "NotFound" ELSE "ENOENT"

KeepWrite(k) ==
  IF lastWrite.key = k \/ lastWrite.dropped = k THEN lastWrite ELSE NoWrite

\* The stream h is the one the last get has returned, and nothing but its
\* own steps has happened since.
Fresh(h) == lastWrite.h = h

Returned(h) == [NoWrite EXCEPT !.h = h]
Written(k, d) == [NoWrite EXCEPT !.key = k, !.data = d]
Dropped(k) == [NoWrite EXCEPT !.dropped = k]

\* ------------------------------------------------------------------ _put
\* (variant for C1: fskey is not set on the item)
PutMutateNoFskey(k, item) ==
  IF backend = FS1 THEN item ELSE [item EXCEPT !.shard = "null"]

\* The synchronous part of _put: the two-namespace and the bucket adapter
\* null the shard and set fskey on the caller's item, then stringify it;
\* the single-directory adapter stringifies the item as it is.
PutMutate(k, item) ==
  IF backend = FS1 THEN item
  ELSE [item EXCEPT !.shard = "null", !.fskey = Derive(k)]

PutStart(o, k, item) ==
  /\ FreeSlot(o)
  /\ ops' = [ops EXCEPT ![o] =
       [IdleOp EXCEPT !.kind = "put", !.pc = "write", !.key = k,
                      !.given = item,
                      !.arg = PutMutate(k, item),
                      !.text = JsonStringify(PutMutate(k, item))]]
  /\ handles' = handles
  /\ lastWrite' = NoWrite
  /\ UNCHANGED <<backend, listing, logger, isOpen, lastConn, dirs, contracts, shards, hist>>

\* The outcome of fs.writeFile / db.put.
PutErr(out) ==
  IF DbClosed THEN "NotOpen"
  ELSE IF backend # BUCKET /\ ~dirs.c THEN "ENOENT"
  ELSE IF out # "ok" THEN out
  ELSE "null"

PutWrite(o, out) ==
  /\ ops[o].kind = "put" /\ ops[o].pc = "write"
  /\ LET k == ops[o].key
         err == PutErr(out)
     IN /\ contracts' = IF err = "null"
                        THEN [contracts EXCEPT ![k] = Rec(ops[o].text)]
                        ELSE contracts
        /\ hist' = IF err = "null"
                   THEN [hist EXCEPT ![k] = PutHist(ops[o].arg.value)]
                   ELSE hist
        /\ ops' = [ops EXCEPT ![o] = Finish(o, CbErr(err))]
  /\ handles' = handles
  /\ lastWrite' = NoWrite
  /\ UNCHANGED <<backend, listing, logger, isOpen, lastConn, dirs, shards>>

\* ----------------------------------------------------------------- _peek
PeekStart(o, k) ==
  /\ FreeSlot(o)
  /\ ops' = [ops EXCEPT ![o] =
       [IdleOp EXCEPT !.kind = "peek", !.pc = "read", !.key = k]]
  /\ handles' = handles
  /\ lastWrite' = NoWrite
  /\ UNCHANGED <<backend, listing, logger, isOpen, lastConn, dirs, contracts, shards, hist>>

\* (variant for C19: peek attaches a stream as get does)
PeekResultWithStream(k) ==
  IF DbClosed THEN CbErr("NotOpen")
  ELSE IF ~contracts[k].exists THEN CbErr(MissingErr)
  ELSE Cb("null", ItemOf([JsonParse(contracts[k].text) EXCEPT !.shard = "rstream"], 1), {})

\* (variant for C3: the read error of a missing record is not passed on)
PeekResultUnchecked(k) ==
  IF DbClosed THEN CbErr("NotOpen")
  ELSE Cb("null", ItemOf(JsonParse(contracts[k].text), 0), {})

\* The callback of fs.readFile / db.get: the parsed record, or the error.
PeekResult(k) ==
  IF DbClosed THEN CbErr("NotOpen")
  ELSE IF ~contracts[k].exists THEN CbErr(MissingErr)
  ELSE Cb("null", ItemOf(JsonParse(contracts[k].text), 0), {})

PeekRead(o) ==
  /\ ops[o].kind = "peek" /\ ops[o].pc = "read"
  /\ ops' = [ops EXCEPT ![o] = Finish(o, PeekResult(ops[o].key))]
  /\ handles' = handles
  /\ lastWrite' = NoWrite
  /\ UNCHANGED <<backend, listing, logger, isOpen, lastConn, dirs, contracts, shards, hist>>

\* ------------------------------------------------------------------ _get
HasFreeHandle == \E h \in HandleIds : handles[h].st = "free"

NewHandle ==
  CHOOSE h \in HandleIds :
    /\ handles[h].st = "free"
    /\ \A g \in HandleIds : g < h => handles[g].st # "free"

OpenHandle(mode, k, p) ==
  [st |-> "new", mode |-> mode, key |-> k, pkey |-> p, data |-> <<>>,
   attached |-> TRUE]

\* The streams the callers hold, and the gets in flight that may return one.
StreamsHeld ==
  Cardinality({ h \in HandleIds : handles[h].st # "free" })
  + Cardinality({ q \in OpIds : ops[q].kind = "get" /\ ops[q].pc \in {"read", "probe"} })

\* get(k) is called, by callers that hold fewer than c streams.
GetStartUpTo(o, k, c) ==
  /\ FreeSlot(o)
  /\ backend = FS1 \/ StreamsHeld < c
  /\ ops' = [ops EXCEPT ![o] =
       [IdleOp EXCEPT !.kind = "get", !.pc = "read", !.key = k]]
  /\ handles' = handles
  /\ lastWrite' = KeepWrite(k)
  /\ UNCHANGED <<backend, listing, logger, isOpen, lastConn, dirs, contracts, shards, hist>>

GetStart(o, k) == GetStartUpTo(o, k, MaxHandles)

\* result.fskey || key
ResolveFskey(obj, k) == IF obj.fskey # NoFskey THEN obj.fskey ELSE k

\* The callback of fs.readFile / db.get in _get.  The single-directory
\* adapter returns the parsed record; the others go on to probe the shard.
GetRead(o) ==
  /\ ops[o].kind = "get" /\ ops[o].pc = "read"
  /\ LET k == ops[o].key
         res == PeekResult(k)
     IN ops' = [ops EXCEPT ![o] =
          IF res.err # "null" \/ backend = FS1
          THEN Finish(o, res)
          ELSE [ops[o] EXCEPT !.pc = "probe",
                              !.text = contracts[k].text,
                              !.fskey = ResolveFskey(JsonParse(contracts[k].text), k)]]
  /\ handles' = handles
  /\ lastWrite' = KeepWrite(ops[o].key)
  /\ UNCHANGED <<backend, listing, logger, isOpen, lastConn, dirs, contracts, shards, hist>>

\* (variant for C11: any failure of the probe counts as "no shard")
ProbeLenient(p, out) ==
  IF out = "ok" /\ shards[p].exists THEN "Found" ELSE "Absent"

\* The three outcomes of the existence probe (fs.stat / headObject).
Probe(p, out) ==
  IF out # "ok" THEN "Error"
  ELSE IF shards[p].exists THEN "Found"
  ELSE "Absent"

\* The physical key the write stream is opened on when the shard is absent:
\* the two-namespace adapter opens shards/<rmd160(key)>; the bucket adapter
\* starts the upload under the key it has probed, before it reassigns fskey.
WriteKey(k, p) == IF backend = BUCKET THEN p ELSE Derive(k)

\* (variant for C10: the probe's not-found is passed on as an error)
GetProbeResultStrict(o, out) ==
  LET obj == JsonParse(ops[o].text)
  IN IF out # "ok" THEN CbErr(out)
     ELSE IF shards[ops[o].fskey].exists
     THEN Cb("null", ItemOf([obj EXCEPT !.shard = "rstream"], NewHandle), {})
     ELSE CbErr(MissingErr)

\* The callback of the probe: attach a read stream, attach a write stream
\* (and report fskey = rmd160(key)), or pass the probe's error on.
GetProbeResult(o, out) ==
  LET k == ops[o].key
      p == ops[o].fskey
      obj == JsonParse(ops[o].text)
      pr == Probe(p, out)
  IN IF pr = "Error" THEN CbErr(out)
     ELSE IF pr = "Found"
     THEN Cb("null", ItemOf([obj EXCEPT !.shard = "rstream"], NewHandle), {})
     ELSE Cb("null", ItemOf([obj EXCEPT !.shard = "wstream", !.fskey = Derive(k)],
                            NewHandle), {})

\* (variant for C27: the fskey assigned in the Absent branch is written back
\* to the metadata record)
GetProbePersists(o, out) ==
  /\ ops[o].kind = "get" /\ ops[o].pc = "probe"
  /\ HasFreeHandle
  /\ LET k == ops[o].key
         p == ops[o].fskey
         pr == Probe(p, out)
         res == GetProbeResult(o, out)
     IN /\ ops' = [ops EXCEPT ![o] = [Finish(o, res) EXCEPT !.flag = (out # "ok")]]
        /\ handles' =
             IF pr = "Error" THEN handles
             ELSE [handles EXCEPT ![NewHandle] =
                     IF pr = "Found" THEN OpenHandle("r", k, p)
                     ELSE OpenHandle("w", k, WriteKey(k, p))]
        /\ contracts' =
             IF pr = "Absent" /\ contracts[k].exists
             THEN [contracts EXCEPT ![k].text.fskey = Derive(k)]
             ELSE contracts
        /\ lastWrite' = IF pr = "Error" THEN NoWrite ELSE Returned(NewHandle)
  /\ UNCHANGED <<backend, listing, logger, isOpen, lastConn, dirs, shards, hist>>

\* (flag records that the probe itself has failed.)
GetProbe(o, out) ==
  /\ ops[o].kind = "get" /\ ops[o].pc = "probe"
  /\ HasFreeHandle
  /\ LET k == ops[o].key
         p == ops[o].fskey
         pr == Probe(p, out)
         res == GetProbeResult(o, out)
     IN /\ ops' = [ops EXCEPT ![o] = [Finish(o, res) EXCEPT !.flag = (out # "ok")]]
        /\ handles' =
             IF pr = "Error" THEN handles
             ELSE [handles EXCEPT ![NewHandle] =
                     IF pr = "Found" THEN OpenHandle("r", k, p)
                     ELSE OpenHandle("w", k, WriteKey(k, p))]
        /\ lastWrite' = IF pr = "Error" THEN NoWrite ELSE Returned(NewHandle)
  /\ UNCHANGED <<backend, listing, logger, isOpen, lastConn, dirs, contracts, shards, hist>>


\* ------------------------------------------------------------------ _del
\* An unlink of shards/<p>, or the removal of the whole shards directory:
\* write streams that have the file open keep writing to a file that no
\* path names any more.
Detach(hs, gone) ==
  [h \in HandleIds |->
     IF hs[h].st = "open" /\ hs[h].pkey \in gone
     THEN [hs[h] EXCEPT !.attached = FALSE] ELSE hs[h]]

\* The call succeeded if the first invocation of its callback carried no
\* error.
Succeeded(cbs) == Len(cbs) > 0 /\ cbs[1].err = "null"

DelStart(o, k) ==
  /\ FreeSlot(o)
  /\ ops' = [ops EXCEPT ![o] =
       [IdleOp EXCEPT !.kind = "del", !.key = k, !.fskey = k,
                      !.pc = IF backend = FS1 THEN "meta" ELSE "peek",
                      !.flag = /\ ~contracts[k].exists
                               /\ ~shards[k].exists
                               /\ ~shards[Derive(k)].exists]]
  /\ handles' = handles
  /\ lastWrite' = NoWrite
  /\ UNCHANGED <<backend, listing, logger, isOpen, lastConn, dirs, contracts, shards, hist>>

\* (variant for C4: the stored fskey is not used)
DelPeekIgnoresFskey(o) ==
  /\ ops[o].kind = "del" /\ ops[o].pc = "peek"
  /\ ops' = [ops EXCEPT ![o] = [ops[o] EXCEPT !.pc = "meta", !.fskey = ops[o].key]]
  /\ lastWrite' = NoWrite
  /\ UNCHANGED <<backend, listing, logger, isOpen, lastConn, dirs, contracts, shards, handles, hist>>

\* The callback of this._peek inside _del: the stored fskey if the record
\* could be read and has one, the logical key otherwise.
DelPeek(o) ==
  /\ ops[o].kind = "del" /\ ops[o].pc = "peek"
  /\ LET k == ops[o].key
         res == PeekResult(k)
     IN ops' = [ops EXCEPT ![o] =
          [ops[o] EXCEPT !.pc = "meta",
             !.fskey = IF res.err = "null" /\ res.item.fskey # NoFskey
                       THEN res.item.fskey ELSE k]]
  /\ handles' = handles
  /\ lastWrite' = NoWrite
  /\ UNCHANGED <<backend, listing, logger, isOpen, lastConn, dirs, contracts, shards, hist>>

\* (variant for C6: a missing file is no error of the metadata delete)
DelMetaErrTolerant(k, out) ==
  IF DbClosed THEN "NotOpen"
  ELSE IF out # "ok" THEN out
  ELSE "null"

\* The error of fs.unlink(contract) / db.del(key): LevelDB deletes a key
\* that is not there without an error, the filesystem reports ENOENT.
DelMetaErr(k, out) ==
  IF DbClosed THEN "NotOpen"
  ELSE IF out # "ok" THEN out
  ELSE IF backend # BUCKET /\ ~contracts[k].exists THEN "ENOENT"
  ELSE "null"

\* The callback of the metadata delete.  Two-namespace adapter: an error
\* other than ENOENT is reported and the shard is unlinked all the same.
\* Bucket adapter: any error ends the call.  Single-directory adapter: the
\* callback of fs.unlink is the caller's callback.
DelMeta(o, out) ==
  /\ ops[o].kind = "del" /\ ops[o].pc = "meta"
  /\ LET k == ops[o].key
         err == DelMetaErr(k, out)
         done == CASE backend = FS1 -> Finish(o, CbErr(err))
                   [] backend = BUCKET ->
                        IF err # "null" THEN Finish(o, CbErr(err))
                        ELSE [ops[o] EXCEPT !.pc = "shard"]
                   [] OTHER ->
                        IF err \notin {"null", "ENOENT"}
                        THEN [ops[o] EXCEPT !.pc = "shard", !.cb = Append(@, CbErr(err))]
                        ELSE [ops[o] EXCEPT !.pc = "shard"]
     IN /\ contracts' = IF err = "null" THEN [contracts EXCEPT ![k] = NoRec]
                        ELSE contracts
        /\ ops' = [ops EXCEPT ![o] = done]
        /\ hist' = IF done.pc = "done" /\ Succeeded(done.cb)
                   THEN [hist EXCEPT ![k] = DelHist(@)] ELSE hist
  /\ handles' = handles
  /\ lastWrite' = NoWrite
  /\ UNCHANGED <<backend, listing, logger, isOpen, lastConn, dirs, shards>>

\* The error of fs.unlink(shard) / deleteObject: the object store deletes
\* an object that is not there without an error.
DelShardErr(p, out) ==
  IF out # "ok" THEN out
  ELSE IF backend # BUCKET /\ ~shards[p].exists THEN "ENOENT"
  ELSE "null"

\* (variant for C5: ENOENT of the shard unlink is reported like any error)
DelShardCbsStrict(err) ==
  IF backend = BUCKET THEN <<CbErr(err)>>
  ELSE IF err # "null" THEN <<CbErr(err), CbOk>>
  ELSE <<CbOk>>

\* The callback invocations of the shard delete.  Two-namespace adapter: an
\* error other than ENOENT is reported, and callback(null) follows in every
\* case.  Bucket adapter: deleteObject's callback is the caller's callback.
DelShardCbs(err) ==
  IF backend = BUCKET THEN <<CbErr(err)>>
  ELSE IF err \notin {"null", "ENOENT"} THEN <<CbErr(err), CbOk>>
  ELSE <<CbOk>>

DelShard(o, out) ==
  /\ ops[o].kind = "del" /\ ops[o].pc = "shard"
  /\ LET k == ops[o].key
         p == ops[o].fskey
         err == DelShardErr(p, out)
         done == Done([ops[o] EXCEPT !.cb = @ \o DelShardCbs(err)])
     IN /\ shards' = IF err = "null" THEN [shards EXCEPT ![p] = NoShard]
                     ELSE shards
        /\ handles' = IF err = "null" /\ backend # BUCKET
                      THEN Detach(handles, {p}) ELSE handles
        /\ ops' = [ops EXCEPT ![o] = done]
        /\ hist' = IF Succeeded(done.cb) THEN [hist EXCEPT ![k] = DelHist(@)] ELSE hist
  /\ lastWrite' = NoWrite
  /\ UNCHANGED <<backend, listing, logger, isOpen, lastConn, dirs, contracts>>

\* ---------------------------------------------------------------- _flush
\* The bucket adapter has no flush: it calls back at once.  The filesystem
\* adapters start their first directory operation.
FlushStart(o) ==
  /\ FreeSlot(o)
  /\ ops' = [ops EXCEPT ![o] =
       IF backend = BUCKET
       THEN [IdleOp EXCEPT !.kind = "flush", !.pc = "done", !.cb = <<CbOk>>]
       ELSE [IdleOp EXCEPT !.kind = "flush", !.pc = "step1"]]
  /\ hist' = IF backend = BUCKET THEN FlushHist ELSE hist
  /\ handles' = handles
  /\ lastWrite' = NoWrite
  /\ UNCHANGED <<backend, listing, logger, isOpen, lastConn, dirs, contracts, shards>>

\* Two-namespace adapter: the callback of rimraf(contracts), which reports
\* an error and goes on.  Single-directory adapter: the callback of
\* fs.readdir, which throws an error, and otherwise unlinks every file and
\* calls back.
FlushStep1(o, out) ==
  /\ ops[o].kind = "flush" /\ ops[o].pc = "step1"
  /\ LET done == IF backend = FS1
                 THEN (IF out # "ok" THEN [ops[o] EXCEPT !.pc = "thrown"]
                       ELSE Finish(o, CbOk))
                 ELSE IF out # "ok"
                 THEN [ops[o] EXCEPT !.pc = "step2", !.cb = Append(@, CbErr(out))]
                 ELSE [ops[o] EXCEPT !.pc = "step2"]
     IN /\ ops' = [ops EXCEPT ![o] = done]
        /\ contracts' = IF out = "ok" THEN [k \in Keys |-> NoRec] ELSE contracts
        /\ dirs' = IF out = "ok" /\ backend = FS2 THEN [dirs EXCEPT !.c = FALSE]
                   ELSE dirs
        /\ hist' = IF done.pc = "done" /\ Succeeded(done.cb) THEN FlushHist ELSE hist
  /\ handles' = handles
  /\ lastWrite' = NoWrite
  /\ UNCHANGED <<backend, listing, logger, isOpen, lastConn, shards>>

\* Two-namespace adapter: the callback of rimraf(shards), which reports an
\* error, re-creates both directories and calls back with null.
FlushStep2(o, out) ==
  /\ ops[o].kind = "flush" /\ ops[o].pc = "step2"
  /\ LET done == Done([ops[o] EXCEPT
                    !.cb = @ \o (IF out # "ok" THEN <<CbErr(out), CbOk>> ELSE <<CbOk>>)])
     IN /\ ops' = [ops EXCEPT ![o] = done]
        /\ hist' = IF Succeeded(done.cb) THEN FlushHist ELSE hist
  /\ shards' = IF out = "ok" THEN [p \in PhysKeys |-> NoShard] ELSE shards
  /\ handles' = IF out = "ok" THEN Detach(handles, PhysKeys) ELSE handles
  /\ dirs' = [c |-> TRUE, s |-> TRUE]
  /\ lastWrite' = NoWrite
  /\ UNCHANGED <<backend, listing, logger, isOpen, lastConn, contracts>>

\* ----------------------------------------------------------------- _keys
KeysStart(o) ==
  /\ FreeSlot(o)
  /\ ops' = [ops EXCEPT ![o] = [IdleOp EXCEPT !.kind = "keys", !.pc = "list"]]
  /\ handles' = handles
  /\ lastWrite' = NoWrite
  /\ UNCHANGED <<backend, listing, logger, isOpen, lastConn, dirs, contracts, shards, hist>>

\* The names fs.readdir finds in the metadata directory / the keys of the
\* LevelDB key stream.
ListKeys == { k \in Keys : contracts[k].exists }

\* The error of the listing: fs.readdir of the metadata directory, or the
\* iterator behind the LevelDB key stream.
ListErr(out) ==
  IF DbClosed THEN "NotOpen"
  ELSE IF backend # BUCKET /\ ~dirs.c THEN "ENOENT"
  ELSE IF out # "ok" THEN out
  ELSE "null"

\* A call that has ended in an exception nobody catches: no 'data', 'end'
\* or 'error' reaches the consumer.
Thrown(op) == [op EXCEPT !.pc = "thrown"]

\* The listing has returned.  Without an error the stream delivers the keys
\* and 'end'.  With an error the LevelDB key stream emits 'error'; the
\* filesystem adapters' readdir callback throws it.
KeysList(o, out) ==
  /\ ops[o].kind = "keys" /\ ops[o].pc = "list"
  /\ ops' = [ops EXCEPT ![o] =
       IF ListErr(out) = "null" THEN Finish(o, Cb("null", NoItem, ListKeys))
       ELSE IF backend = BUCKET THEN Finish(o, CbErr(ListErr(out)))
       ELSE Thrown(ops[o])]
  /\ handles' = handles
  /\ lastWrite' = NoWrite
  /\ UNCHANGED <<backend, listing, logger, isOpen, lastConn, dirs, contracts, shards, hist>>

\* ----------------------------------------------------------------- _size
\* Sizes are counted in units of the length of the JSON text of a record
\* without payload; a text that carries a Buffer is longer.
JsonBytes(text) == IF text.shard = "bufferjson" THEN 2 ELSE 1

\* kfs.constants.B, by which the bucket adapter divides.
KfsB == 256

\* Math.ceil(n / d)
CeilDiv(n, d) == (n + d - 1) \div d

RECURSIVE SumBytes(_)
SumBytes(ps) ==
  IF ps = {} THEN 0
  ELSE LET p == CHOOSE q \in ps : TRUE
       IN (IF shards[p].exists THEN Len(shards[p].data) ELSE 0)
          + SumBytes(ps \ {p})

\* totalBytes of _getBucketSize: the sizes of all objects of the bucket.
BucketBytes == SumBytes(PhysKeys)

CbSize(n) == [CbOk EXCEPT !.size = n]

\* _size(key, callback) with a key.  The filesystem adapters read the
\* metadata file; the bucket adapter asks LevelDB for its approximate size.
SizeStart(o, k) ==
  /\ FreeSlot(o)
  /\ ops' = [ops EXCEPT ![o] =
       [IdleOp EXCEPT !.kind = "size", !.key = k,
                      !.pc = IF backend = BUCKET THEN "approx" ELSE "read"]]
  /\ handles' = handles
  /\ lastWrite' = KeepWrite(k)
  /\ UNCHANGED <<backend, listing, logger, isOpen, lastConn, dirs, contracts, shards, hist>>

\* The callback of fs.readFile in _size: the error, or the stat size of the
\* metadata file.
SizeOfFile(k) ==
  IF ~contracts[k].exists THEN CbErr("ENOENT")
  ELSE CbSize(JsonBytes(contracts[k].text))

SizeRead(o) ==
  /\ ops[o].kind = "size" /\ ops[o].pc = "read"
  /\ ops' = [ops EXCEPT ![o] = Finish(o, SizeOfFile(ops[o].key))]
  /\ handles' = handles
  /\ lastWrite' = KeepWrite(ops[o].key)
  /\ UNCHANGED <<backend, listing, logger, isOpen, lastConn, dirs, contracts, shards, hist>>

\* The callback of approximateSize: the error, or on to _getBucketSize.
SizeApprox(o, out) ==
  /\ ops[o].kind = "size" /\ ops[o].pc = "approx"
  /\ ops' = [ops EXCEPT ![o] =
       IF out # "ok" THEN Finish(o, CbErr(out))
       ELSE [ops[o] EXCEPT !.pc = "list"]]
  /\ handles' = handles
  /\ lastWrite' = KeepWrite(ops[o].key)
  /\ UNCHANGED <<backend, listing, logger, isOpen, lastConn, dirs, contracts, shards, hist>>

\* handleStatResults, the callback of _getBucketSize: the error, or the
\* bytes of the whole bucket divided by kfs.constants.B and rounded up.
SizeList(o, out) ==
  /\ ops[o].kind = "size" /\ ops[o].pc = "list"
  /\ ops' = [ops EXCEPT ![o] =
       IF out # "ok" THEN Finish(o, CbErr(out))
       ELSE Finish(o, CbSize(CeilDiv(BucketBytes, KfsB)))]
  /\ handles' = handles
  /\ lastWrite' = KeepWrite(ops[o].key)
  /\ UNCHANGED <<backend, listing, logger, isOpen, lastConn, dirs, contracts, shards, hist>>

\* The bytes of all metadata files.
RECURSIVE SumTexts(_)
SumTexts(ks) ==
  IF ks = {} THEN 0
  ELSE LET k == CHOOSE q \in ks : TRUE
       IN (IF contracts[k].exists THEN JsonBytes(contracts[k].text) ELSE 0)
          + SumTexts(ks \ {k})

\* info.total - info.free of diskusage.check: what the node's disk holds,
\* here the files of both namespaces.
DiskUsed == SumTexts(Keys) + SumBytes(PhysKeys)

\* _size(callback) without a key, on the filesystem adapters: the
\* two-namespace adapter asks diskusage, the single-directory adapter lists
\* its directory.
SizeAllStart(o) ==
  /\ FreeSlot(o)
  /\ backend # BUCKET
  /\ ops' = [ops EXCEPT ![o] = [IdleOp EXCEPT !.kind = "sizeall", !.pc = "all"]]
  /\ handles' = handles
  /\ lastWrite' = NoWrite
  /\ UNCHANGED <<backend, listing, logger, isOpen, lastConn, dirs, contracts, shards, hist>>

\* The callback of diskusage.check / fs.readdir.  The two-namespace adapter
\* returns after callback(err).  The single-directory adapter calls
\* callback(err) and goes on to iterate over the undefined file list, which
\* throws.
SizeAll(o, out) ==
  /\ ops[o].kind = "sizeall" /\ ops[o].pc = "all"
  /\ ops' = [ops EXCEPT ![o] =
       IF out = "ok"
       THEN Finish(o, CbSize(IF backend = FS2 THEN DiskUsed ELSE SumTexts(Keys)))
       ELSE IF backend = FS2 THEN Finish(o, CbErr(out))
       ELSE Thrown([ops[o] EXCEPT !.cb = Append(@, CbErr(out))])]
  /\ handles' = handles
  /\ lastWrite' = NoWrite
  /\ UNCHANGED <<backend, listing, logger, isOpen, lastConn, dirs, contracts, shards, hist>>

\* ------------------------------------------------------- _open / _close
\* _open.  The filesystem adapters answer "not applicable".  The bucket
\* adapter calls back at once if it is open and opens LevelDB otherwise.
OpenStart(o) ==
  /\ FreeSlot(o)
  /\ ops' = [ops EXCEPT ![o] =
       IF backend # BUCKET
       THEN [IdleOp EXCEPT !.kind = "open", !.pc = "done",
                           !.cb = <<CbErr("NotApplicable")>>]
       ELSE IF isOpen
       THEN [IdleOp EXCEPT !.kind = "open", !.pc = "done", !.cb = <<CbOk>>]
       ELSE [IdleOp EXCEPT !.kind = "open", !.pc = "db"]]
  /\ handles' = handles
  /\ lastWrite' = NoWrite
  /\ UNCHANGED <<backend, listing, logger, isOpen, lastConn, dirs, contracts, shards, hist>>

\* (variant for C17: the flag is set before the error is looked at)
OpenFlagEager(out) == TRUE

\* this._isOpen after the callback of this._db.open.
OpenFlag(out) == IF out = "ok" THEN TRUE ELSE isOpen

\* The callback of this._db.open (flag: LevelDB has been called).
OpenDb(o, out) ==
  /\ ops[o].kind = "open" /\ ops[o].pc = "db"
  /\ ops' = [ops EXCEPT ![o] =
       [Finish(o, IF out = "ok" THEN CbOk ELSE CbErr(out)) EXCEPT !.flag = TRUE]]
  /\ isOpen' = OpenFlag(out)
  /\ lastConn' = IF out = "ok" THEN "open" ELSE lastConn
  /\ handles' = handles
  /\ lastWrite' = NoWrite
  /\ UNCHANGED <<backend, listing, logger, dirs, contracts, shards, hist>>

\* _close.  The bucket adapter calls back at once if it is closed and closes
\* LevelDB otherwise.
CloseStart(o) ==
  /\ FreeSlot(o)
  /\ ops' = [ops EXCEPT ![o] =
       IF backend # BUCKET
       THEN [IdleOp EXCEPT !.kind = "close", !.pc = "done",
                           !.cb = <<CbErr("NotApplicable")>>]
       ELSE IF ~isOpen
       THEN [IdleOp EXCEPT !.kind = "close", !.pc = "done", !.cb = <<CbOk>>]
       ELSE [IdleOp EXCEPT !.kind = "close", !.pc = "db"]]
  /\ handles' = handles
  /\ lastWrite' = NoWrite
  /\ UNCHANGED <<backend, listing, logger, isOpen, lastConn, dirs, contracts, shards, hist>>

\* The callback of this._db.close.
CloseDb(o, out) ==
  /\ ops[o].kind = "close" /\ ops[o].pc = "db"
  /\ ops' = [ops EXCEPT ![o] =
       [Finish(o, IF out = "ok" THEN CbOk ELSE CbErr(out)) EXCEPT !.flag = TRUE]]
  /\ isOpen' = IF out = "ok" THEN FALSE ELSE isOpen
  /\ lastConn' = IF out = "ok" THEN "close" ELSE lastConn
  /\ handles' = handles
  /\ lastWrite' = NoWrite
  /\ UNCHANGED <<backend, listing, logger, dirs, contracts, shards, hist>>

\* _size on a closed database: approximateSize is called on the raw store
\* (this._db.db), which LevelUP's "not open" check does not guard.  The
\* call on the closed handle may end the process.
SizeApproxFault(o) ==
  /\ ops[o].kind = "size" /\ ops[o].pc = "approx"
  /\ DbClosed
  /\ ops' = [ops EXCEPT ![o] = Thrown(ops[o])]
  /\ handles' = handles
  /\ lastWrite' = NoWrite
  /\ UNCHANGED <<backend, listing, logger, isOpen, lastConn, dirs, contracts, shards, hist>>

\* -------------------------------------------------------- _getBucketSize
\* The two versions of _getBucketSize in the repository.
BucketJs == "bucket.js"     \* lib/storage/adapters/bucket.js
Part004 == "part_004"       \* the adapter that opens the S3 client itself
ListVariants == {BucketJs, Part004}

\* The answers of listObjectsV2: a page carries the sizes of its objects,
\* or the request for it fails.
PageBodies ==
  [objs : UNION { [1..n -> 1..MaxLen] : n \in 0..MaxObjects }, err : {"null"}]
    \cup [objs : {<<>>}, err : TransportErrs]

\* A listing of n pages: page i names page i + 1 as its
\* NextContinuationToken, the last page names none (0).
PagesOf(bodies) ==
  [i \in 1..Len(bodies) |->
     [objs |-> bodies[i].objs, err |-> bodies[i].err,
      next |-> IF i < Len(bodies) THEN i + 1 ELSE 0]]

PageSeqs == { PagesOf(b) : b \in UNION { [1..n -> PageBodies] : n \in 1..MaxPages } }

\* The page the object store answers a request with: the first page for a
\* request without ContinuationToken (0), the named page otherwise.
PageOf(t) == IF t = 0 THEN listing.pages[1] ELSE listing.pages[t]

RECURSIVE SeqSum(_)
SeqSum(q) == IF q = <<>> THEN 0 ELSE Head(q) + SeqSum(Tail(q))

\* callback(err) and callback(null, totalBytes, {numObjects, bytes}).
ListCb(err, bytes, n) == [err |-> err, bytes |-> bytes, numObjects |-> n]

\* The synchronous part of _getBucketSize(bucket, [prefix], callback): the
\* shuffle of the optional argument and the first listNextChunk(), which
\* sends a request without ContinuationToken.  In part_004 the shuffle
\* assigns to `next`, which no scope declares: in strict mode the
\* assignment throws a ReferenceError.
GetBucketSizeCall ==
  /\ listing.pc = "call"
  /\ listing' =
       IF listing.variant = Part004 /\ ~listing.prefix
       THEN [listing EXCEPT !.pc = "thrown"]
       ELSE [listing EXCEPT !.pc = "wait", !.reqs = <<0>>]
  /\ UNCHANGED <<backend, logger, isOpen, lastConn, dirs, contracts, shards, ops, handles, hist, lastWrite>>

\* The callback of listObjectsV2.  An error ends the call: bucket.js passes
\* it to the callback; part_004 calls the undeclared `next`, which throws.
\* Otherwise the page is counted, and the next page is requested or the
\* totals are reported.
ListObjectsCb ==
  /\ listing.pc = "wait"
  /\ LET page == PageOf(listing.reqs[Len(listing.reqs)])
         n == listing.numObjects + Len(page.objs)
         b == listing.totalBytes + SeqSum(page.objs)
     IN listing' =
          IF page.err # "null"
          THEN (IF listing.variant = Part004
                THEN [listing EXCEPT !.pc = "thrown"]
                ELSE [listing EXCEPT !.pc = "done",
                                     !.cb = Append(@, ListCb(page.err, 0, 0))])
          ELSE IF page.next # 0
          THEN [listing EXCEPT !.numObjects = n, !.totalBytes = b,
                               !.reqs = Append(@, page.next)]
          ELSE [listing EXCEPT !.numObjects = n, !.totalBytes = b, !.pc = "done",
                               !.cb = Append(@, ListCb("null", b, n))]
  /\ UNCHANGED <<backend, logger, isOpen, lastConn, dirs, contracts, shards, ops, handles, hist, lastWrite>>

\* --------------------------------------------------------------- streams
\* fs.createWriteStream opens its file with flag 'w': the file is created,
\* or truncated if it is there.  Without the directory the stream fails.
WsOpen(h) ==
  /\ backend = FS2
  /\ handles[h].mode = "w" /\ handles[h].st = "new"
  /\ IF dirs.s
     THEN /\ shards' = [shards EXCEPT ![handles[h].pkey] = Shard(<<>>)]
          /\ handles' = [handles EXCEPT ![h].st = "open"]
          /\ lastWrite' = IF Fresh(h) THEN lastWrite ELSE NoWrite
     ELSE /\ shards' = shards
          /\ handles' = [handles EXCEPT ![h] = FreeHandle]
          /\ lastWrite' = NoWrite
  /\ UNCHANGED <<backend, listing, logger, isOpen, lastConn, dirs, contracts, ops, hist>>

\* Bytes b written at offset 0 over the content c of a file.
Overlay(c, b) == b \o SubSeq(c, Len(b) + 1, Len(c))

\* The caller writes payload b in one chunk and ends the stream; the write
\* has completed when the stream closes.
WsWrite(h, b) ==
  /\ backend = FS2
  /\ handles[h].mode = "w" /\ handles[h].st = "open"
  /\ LET p == handles[h].pkey
     IN shards' = IF handles[h].attached
                  THEN [shards EXCEPT ![p] = Shard(Overlay(shards[p].data, b))]
                  ELSE shards
  /\ handles' = [handles EXCEPT ![h] = FreeHandle]
  /\ lastWrite' = IF Fresh(h) /\ handles[h].attached
                  THEN Written(handles[h].key, b) ELSE NoWrite
  /\ hist' = IF handles[h].attached
             THEN [hist EXCEPT ![handles[h].key].wrote = TRUE] ELSE hist
  /\ UNCHANGED <<backend, listing, logger, isOpen, lastConn, dirs, contracts, ops>>

\* Bucket adapter: the caller writes payload b into the PassThrough and
\* ends it; the managed upload now has its whole body.
WsEnd(h, b) ==
  /\ backend = BUCKET
  /\ handles[h].mode = "w" /\ handles[h].st = "new"
  /\ handles' = [handles EXCEPT ![h].st = "uploading", ![h].data = b]
  /\ lastWrite' = IF Fresh(h) THEN lastWrite ELSE NoWrite
  /\ UNCHANGED <<backend, listing, logger, isOpen, lastConn, dirs, contracts, shards, ops, hist>>

\* pass.emit('error', err) in the send callback of the upload: err is null
\* when the upload has succeeded.
UploadEvent(out) == [name |-> "error", arg |-> IF out = "ok" THEN "null" ELSE out]

\* The upload's send callback: the object is stored under the key the
\* upload was started with, or the upload has failed; the callback emits
\* its argument on the stream.
UploadDone(h, out) ==
  /\ backend = BUCKET
  /\ handles[h].st = "uploading"
  /\ shards' = IF out = "ok"
               THEN [shards EXCEPT ![handles[h].pkey] = Shard(handles[h].data)]
               ELSE shards
  /\ handles' = [handles EXCEPT ![h] = FreeHandle]
  /\ lastWrite' = [(IF Fresh(h) /\ out = "ok"
                    THEN Written(handles[h].key, handles[h].data) ELSE NoWrite)
                   EXCEPT !.event = UploadEvent(out)]
  /\ hist' = IF out = "ok"
             THEN [hist EXCEPT ![handles[h].key].wrote = TRUE] ELSE hist
  /\ UNCHANGED <<backend, listing, logger, isOpen, lastConn, dirs, contracts, ops>>

\* The caller lets a write stream go without writing to it or ending it.
\* The file of fs.createWriteStream has been opened by then; the PassThrough
\* of the bucket adapter has given the upload nothing to send.
WsDrop(h) ==
  /\ handles[h].mode = "w"
  /\ handles[h].st = (IF backend = BUCKET THEN "new" ELSE "open")
  /\ handles' = [handles EXCEPT ![h] = FreeHandle]
  /\ lastWrite' = IF Fresh(h) THEN Dropped(handles[h].key) ELSE NoWrite
  /\ UNCHANGED <<backend, listing, logger, isOpen, lastConn, dirs, contracts, shards, ops, hist>>

\* The caller drains a read stream to its end (or to its error, if the shard
\* is gone) and the stream closes.
RsRead(h) ==
  /\ handles[h].mode = "r" /\ handles[h].st = "new"
  /\ handles' = [handles EXCEPT ![h] = FreeHandle]
  /\ lastWrite' = NoWrite
  /\ UNCHANGED <<backend, listing, logger, isOpen, lastConn, dirs, contracts, shards, ops, hist>>

\* Control returns from the callback of a finished call.
Return(o) ==
  /\ ops[o].pc = "done"
  /\ ops' = [ops EXCEPT ![o] = IdleOp]
  /\ UNCHANGED <<backend, listing, logger, isOpen, lastConn, dirs, contracts, shards, handles, hist, lastWrite>>

\* No callback is running.
Settled == \A o \in OpIds : ops[o].pc # "done"

\* ------------------------------------------------------- specifications
StreamStep ==
  \E h \in HandleIds : Settled /\
    \/ WsOpen(h)
    \/ \E b \in Payloads : WsWrite(h, b)
    \/ \E b \in Payloads : WsEnd(h, b)
    \/ UploadDone(h, "ok")
    \/ WsDrop(h)
    \/ RsRead(h)

\* The caller issues one call at a time; every backend call does what it is
\* asked to do (no transport faults); streams run on their own.
Next ==
  \/ \E o \in OpIds : Return(o)
  \/ \E o \in OpIds : Settled /\
       \/ Quiet /\ \E k \in Keys, item \in Items : PutStart(o, k, item)
       \/ PutWrite(o, "ok")
       \/ Quiet /\ \E k \in Keys : PeekStart(o, k)
       \/ PeekRead(o)
       \/ Quiet /\ \E k \in Keys : GetStart(o, k)
       \/ GetRead(o)
       \/ GetProbe(o, "ok")
       \/ Quiet /\ \E k \in Keys : DelStart(o, k)
       \/ DelPeek(o)
       \/ DelMeta(o, "ok")
       \/ DelShard(o, "ok")
       \/ Quiet /\ FlushStart(o)
       \/ FlushStep1(o, "ok")
       \/ FlushStep2(o, "ok")
       \/ Quiet /\ KeysStart(o)
       \/ KeysList(o, "ok")
       \/ Quiet /\ \E k \in Keys : SizeStart(o, k)
       \/ SizeRead(o)
       \/ SizeApprox(o, "ok")
       \/ SizeList(o, "ok")
       \/ Quiet /\ SizeAllStart(o)
       \/ SizeAll(o, "ok")
  \/ StreamStep

Spec == Init /\ [][Next]_vars

\* A store whose record of key 1 carries an fskey that is not derive(1); its
\* shard, if uploaded, sits under that fskey.
StoredText == [value |-> 1, fskey |-> ForeignFskey, shard |-> "null"]

InitStored ==
  /\ backend \in {FS2, BUCKET}
  /\ isOpen = TRUE
  /\ lastConn = "none"
  /\ dirs = [c |-> TRUE, s |-> TRUE]
  /\ contracts = [k \in Keys |-> IF k = 1 THEN Rec(StoredText) ELSE NoRec]
  /\ \E d \in {<<>>, <<1>>} :
       shards = [p \in PhysKeys |->
                  IF p = ForeignFskey /\ d # <<>> THEN Shard(d) ELSE NoShard]
  /\ ops = [o \in OpIds |-> IdleOp]
  /\ handles = [h \in HandleIds |-> FreeHandle]
  /\ hist = [k \in Keys |->
       IF contracts[k].exists THEN [NoHist EXCEPT !.st = "pre"] ELSE NoHist]
  /\ lastWrite = NoWrite
  /\ listing = NoListing
  /\ logger = NoLogCall

\* The sequential caller over such a store.
SpecStored == InitStored /\ [][Next]_vars

\* No call has ended in an uncaught exception: the process is running.
Alive == \A o \in OpIds : ops[o].pc # "thrown"

\* The caller opens and closes the adapter between its calls; LevelDB may
\* refuse to open or to close.  On the closed raw store approximateSize may
\* report a number, report an error or end the process.
ConnStep ==
  \E o \in OpIds : Settled /\
    \/ Quiet /\ OpenStart(o)
    \/ OpenDb(o, "ok")
    \/ \E e \in TransportErrs : OpenDb(o, e)
    \/ Quiet /\ CloseStart(o)
    \/ CloseDb(o, "ok")
    \/ \E e \in TransportErrs : CloseDb(o, e)
    \/ DbClosed /\ SizeApprox(o, "NotOpen")
    \/ SizeApproxFault(o)

NextConn ==
  \/ Alive /\ Next
  \/ Alive /\ ConnStep

SpecConn == Init /\ [][NextConn]_vars

\* A backend call fails with a transport error.
FaultStep ==
  \E e \in TransportErrs :
    \/ \E o \in OpIds : Settled /\
         \/ PutWrite(o, e)
         \/ GetProbe(o, e)
         \/ DelMeta(o, e)
         \/ DelShard(o, e)
         \/ FlushStep1(o, e)
         \/ FlushStep2(o, e)
         \/ KeysList(o, e)
         \/ SizeApprox(o, e)
         \/ SizeList(o, e)
         \/ SizeAll(o, e)
    \/ \E h \in HandleIds : Settled /\ UploadDone(h, e)

\* The sequential caller over backends whose calls may fail.
NextFaults ==
  \/ Alive /\ Next
  \/ Alive /\ FaultStep

SpecFaults == Init /\ [][NextFaults]_vars

\* One call of _getBucketSize, of either version, with or without the
\* prefix argument, over any listing of up to MaxPages pages.
InitList ==
  /\ backend = BUCKET
  /\ isOpen = TRUE
  /\ lastConn = "none"
  /\ dirs = [c |-> TRUE, s |-> TRUE]
  /\ contracts = [k \in Keys |-> NoRec]
  /\ shards = [p \in PhysKeys |-> NoShard]
  /\ ops = [o \in OpIds |-> IdleOp]
  /\ handles = [h \in HandleIds |-> FreeHandle]
  /\ hist = [k \in Keys |-> NoHist]
  /\ lastWrite = NoWrite
  /\ \E v \in ListVariants, pre \in BOOLEAN, pg \in PageSeqs :
       listing = [NoListing EXCEPT !.variant = v, !.prefix = pre, !.pages = pg,
                                   !.pc = "call"]
  /\ logger = NoLogCall

NextList ==
  \/ GetBucketSizeCall
  \/ ListObjectsCb

SpecList == InitList /\ [][NextList]_vars

\* An adapter over empty stores.
InitEmpty ==
  /\ backend \in {FS2, BUCKET}
  /\ isOpen = TRUE
  /\ lastConn = "none"
  /\ dirs = [c |-> TRUE, s |-> TRUE]
  /\ contracts = [k \in Keys |-> NoRec]
  /\ shards = [p \in PhysKeys |-> NoShard]
  /\ ops = [o \in OpIds |-> IdleOp]
  /\ handles = [h \in HandleIds |-> FreeHandle]
  /\ hist = [k \in Keys |-> NoHist]
  /\ lastWrite = NoWrite
  /\ listing = NoListing
  /\ logger = NoLogCall

\* The key the concurrent callers work on.
ConcKeys == {1}

\* The item the concurrent callers put.
ConcItem == [value |-> 1, fskey |-> NoFskey, shard |-> "null"]

\* Callers that do not wait for each other: a put, get, del or flush starts
\* while other calls are in flight, and the callbacks of the calls in
\* flight run in any order.
NextConc ==
  \/ \E o \in OpIds : Return(o)
  \/ \E o \in OpIds : Settled /\
       \/ \E k \in ConcKeys : PutStart(o, k, ConcItem)
       \/ PutWrite(o, "ok")
       \/ \E k \in ConcKeys : GetStartUpTo(o, k, MaxWriters)
       \/ GetRead(o)
       \/ GetProbe(o, "ok")
       \/ \E k \in ConcKeys : DelStart(o, k)
       \/ DelPeek(o)
       \/ DelMeta(o, "ok")
       \/ DelShard(o, "ok")
       \/ FlushStart(o)
       \/ FlushStep1(o, "ok")
       \/ FlushStep2(o, "ok")
  \/ StreamStep

SpecConc == InitEmpty /\ [][NextConc]_vars


\* ---------------------------------------------------------------- claims
\* The call in slot o is of this kind and its callback is running.
IsDone(o, kind) == ops[o].kind = kind /\ ops[o].pc = "done"

\* This step is the last callback of the call of this kind in slot o.
Completes(o, kind) ==
  /\ ops[o].kind = kind /\ ops[o].pc \notin {"idle", "done"}
  /\ ops'[o].pc = "done"

\* C1: on the two-namespace and the bucket adapter, a peek(k) after a
\* successful put(k, r) (not since deleted or flushed) returns, without
\* error, the record with r's caller-supplied field, fskey = derive(k) and
\* shard = null, and no stream.
C1_PutThenPeek ==
  \A o \in OpIds :
    (IsDone(o, "peek") /\ backend # FS1 /\ hist[ops[o].key].st = "put") =>
      ops[o].cb = <<Cb("null", [value |-> hist[ops[o].key].value,
                                fskey |-> Derive(ops[o].key),
                                shard |-> "null", h |-> 0], {})>>

\* A peek has returned the record of an overwriting put on the bucket
\* adapter.
C1_Witness ==
  \E o \in OpIds :
    /\ IsDone(o, "peek") /\ backend = BUCKET
    /\ hist[ops[o].key].st = "put" /\ hist[ops[o].key].value = 2
    /\ Succeeded(ops[o].cb)


\* The physical keys under which a shard of logical key k can sit.
ShardKeysOf(k) ==
  {k, Derive(k)} \cup
  (IF contracts[k].exists /\ contracts[k].text.fskey # NoFskey
   THEN {contracts[k].text.fskey} ELSE {})

\* C2: on the two-namespace and the bucket adapter, a get(k) of a key that
\* has a record and no shard yields a writable stream; and once the caller
\* has written bytes b through the stream of a get(k) and the write has
\* completed, the next get(k) yields a readable stream over a shard whose
\* content is exactly b.
C2_RoundTrip ==
  [][\A o \in OpIds :
       (Completes(o, "get") /\ backend # FS1 /\ contracts[ops[o].key].exists) =>
         /\ (\A p \in ShardKeysOf(ops[o].key) : ~shards[p].exists) =>
              /\ Succeeded(ops'[o].cb)
              /\ ops'[o].cb[1].item.shard = "wstream"
         /\ lastWrite.key = ops[o].key =>
              /\ Succeeded(ops'[o].cb)
              /\ ops'[o].cb[1].item.shard = "rstream"
              /\ shards[handles'[ops'[o].cb[1].item.h].pkey] = Shard(lastWrite.data)
    ]_vars

\* The same round trip for the records that put has written (their stored
\* fskey is derive(k)).
C2_RoundTripOfPut ==
  [][\A o \in OpIds :
       (Completes(o, "get") /\ backend # FS1 /\ hist[ops[o].key].st = "put"
        /\ lastWrite.key = ops[o].key) =>
          /\ Succeeded(ops'[o].cb)
          /\ ops'[o].cb[1].item.shard = "rstream"
          /\ shards[handles'[ops'[o].cb[1].item.h].pkey] = Shard(lastWrite.data)
    ]_vars


\* The callback of the metadata read of a get or a peek is running now.
ReadsMeta(o) ==
  /\ ops[o].kind \in {"get", "peek"} /\ ops[o].pc = "read"
  /\ ops'[o].pc # "read"

\* C3: on every adapter, a get(k) or peek(k) that finds no metadata record
\* for k ends there: its callback is invoked once, with a not-found error
\* and no item, and no stream is created, whatever the shard store holds
\* under k or derive(k).
C3_GetWithoutRecord ==
  [][\A o \in OpIds :
       (ReadsMeta(o) /\ ~contracts[ops[o].key].exists) =>
         /\ ops'[o].pc = "done"
         /\ Len(ops'[o].cb) = 1
         /\ IsNotFound(ops'[o].cb[1].err)
         /\ ops'[o].cb[1].item = NoItem
         /\ handles' = handles
    ]_vars

\* A get has failed with not-found for a key without a record while a shard
\* sits under the physical key derived from it.
C3_Witness ==
  \E o \in OpIds :
    /\ IsDone(o, "get")
    /\ ~contracts[ops[o].key].exists
    /\ shards[Derive(ops[o].key)].exists
    /\ IsNotFound(ops[o].cb[1].err)

\* C4: a successful del(k) of a record that put has written leaves neither
\* the metadata record of k nor a shard under its physical key derive(k),
\* also when a shard has been written through the stream of get(k); and
\* every get(k) after a successful del(k), until k is put again, fails with
\* a not-found error and returns no item.
C4_DelRemovesBoth ==
  [][\A o \in OpIds :
       /\ (Completes(o, "del") /\ Succeeded(ops'[o].cb)
           /\ hist[ops[o].key].st = "put") =>
            /\ ~contracts'[ops[o].key].exists
            /\ ~shards'[Derive(ops[o].key)].exists
       /\ (Completes(o, "get") /\ hist[ops[o].key].st = "deleted") =>
            /\ IsNotFound(ops'[o].cb[1].err)
            /\ ops'[o].cb[1].item = NoItem
    ]_vars

\* A get fails with not-found after put, a completed shard write and a
\* successful del of its key, on the two-namespace adapter.
C4_Witness ==
  \E o \in OpIds :
    /\ IsDone(o, "get") /\ backend = FS2
    /\ hist[ops[o].key] = [st |-> "deleted", value |-> 0, wrote |-> TRUE]
    /\ IsNotFound(ops[o].cb[1].err)
    /\ \A p \in PhysKeys : ~shards[p].exists

\* Neither a record of k nor a shard under k or derive(k) is there.
NothingOf(k) ==
  ~contracts[k].exists /\ ~shards[k].exists /\ ~shards[Derive(k)].exists

\* This step is a callback of the del in slot o.
DelStep(o) ==
  ops[o].kind = "del" /\ ops[o].pc \notin {"idle", "done"} /\ ops'[o] # ops[o]

C6_SingleDirDelMissing ==
  [][\A o \in OpIds :
       (DelStep(o) /\ backend = FS1 /\ ~contracts[ops[o].key].exists) =>
         /\ ops'[o].pc = "done"
         /\ ops'[o].cb = <<CbErr("ENOENT")>>
         /\ contracts' = contracts /\ shards' = shards
    ]_vars

\* The single-directory adapter has answered a del of a missing key with
\* ENOENT while another entry is stored.
C6_Witness ==
  \E o \in OpIds :
    /\ IsDone(o, "del") /\ backend = FS1
    /\ ops[o].cb = <<CbErr("ENOENT")>>
    /\ ~contracts[ops[o].key].exists
    /\ \E k \in Keys : contracts[k].exists

\* C7: every persisted metadata record has shard = null, on every adapter.
C7_NoPayloadInMetadata ==
  \A k \in Keys : contracts[k].exists => contracts[k].text.shard = "null"

\* C8: when a flush has completed successfully, on every adapter, both
\* namespaces exist and hold no entry (so that keys() yields nothing).
C8_FlushEmpties ==
  \A o \in OpIds :
    (IsDone(o, "flush") /\ Succeeded(ops[o].cb)) =>
      /\ dirs.c /\ dirs.s
      /\ \A k \in Keys : ~contracts[k].exists
      /\ \A p \in PhysKeys : ~shards[p].exists
      /\ ListKeys = {}

\* The logical keys the caller has put (or found in the store at
\* construction) and not deleted or flushed since.
ExpectedKeys == { k \in Keys : hist[k].st \in {"pre", "put"} }

\* C9: keys() yields exactly the logical keys that have been put and not
\* deleted or flushed since.
C9_KeysExact ==
  \A o \in OpIds :
    (IsDone(o, "keys") /\ Succeeded(ops[o].cb)) =>
      ops[o].cb[1].keys = ExpectedKeys

\* This step is the callback of the existence probe of the get in slot o.
ProbeReturns(o) ==
  ops[o].kind = "get" /\ ops[o].pc = "probe" /\ ops'[o].pc # "probe"

\* C10: when the record of k exists and the probe reports the shard absent,
\* get(k) succeeds with the record and a writable stream attached; when the
\* probe reports it found, get(k) succeeds with the record and a readable
\* stream over the probed shard attached.  The absence is never an error.
C10_ProbeBranches ==
  [][\A o \in OpIds :
       ProbeReturns(o) =>
         LET found == shards[ops[o].fskey].exists
             res == ops'[o].cb[1]
         IN /\ ops'[o].pc = "done"
            /\ Len(ops'[o].cb) = 1
            /\ res.err = "null"
            /\ res.item.value = contracts[ops[o].key].text.value
            /\ res.item.h \in HandleIds
            /\ handles[res.item.h].st = "free"
            /\ handles'[res.item.h].st = "new"
            /\ handles'[res.item.h].key = ops[o].key
            /\ found => /\ res.item.shard = "rstream"
                        /\ handles'[res.item.h].mode = "r"
                        /\ handles'[res.item.h].pkey = ops[o].fskey
            /\ ~found => /\ res.item.shard = "wstream"
                         /\ handles'[res.item.h].mode = "w"
    ]_vars

\* A get has returned a writable stream for a record whose shard is absent.
C10_Witness ==
  \E o \in OpIds :
    /\ IsDone(o, "get") /\ Succeeded(ops[o].cb)
    /\ ops[o].cb[1].item.shard = "wstream"
    /\ handles[ops[o].cb[1].item.h].mode = "w"
    /\ hist[ops[o].key].st = "put"
    /\ ~shards[Derive(ops[o].key)].exists

\* C11: when the existence probe inside get(k) fails with an error other
\* than not-found, the get ends there: its callback is invoked once, with
\* that transport error and no item, and no stream is created and no store
\* changed; the failure is never taken for an absent shard.
C11_ProbeErrorPropagates ==
  [][\A o \in OpIds :
       (ProbeReturns(o) /\ ops'[o].flag) =>
         /\ ops'[o].pc = "done"
         /\ Len(ops'[o].cb) = 1
         /\ ops'[o].cb[1].err \in TransportErrs
         /\ ~IsNotFound(ops'[o].cb[1].err)
         /\ ops'[o].cb[1].item = NoItem
         /\ handles' = handles
         /\ contracts' = contracts /\ shards' = shards
    ]_vars

\* On the bucket adapter a get of a stored record whose shard has not been
\* uploaded has ended with the time-out of its probe.
C11_Witness ==
  \E o \in OpIds :
    /\ IsDone(o, "get") /\ ops[o].flag /\ backend = BUCKET
    /\ ops[o].cb = <<CbErr("Timeout")>>
    /\ contracts[ops[o].key].exists
    /\ \A p \in PhysKeys : ~shards[p].exists
    /\ \A h \in HandleIds : handles[h].st = "free"

\* The record of k carries a stored fskey other than derive(k).
HasForeignFskey(k) ==
  /\ contracts[k].exists
  /\ contracts[k].text.fskey \notin {NoFskey, Derive(k)}

\* C12: for a record whose stored fskey differs from derive(k), get(k)
\* probes the stored fskey and opens its stream, readable or writable, on
\* the stored fskey, and del(k) deletes the shard under the stored fskey and
\* no other; derive(k) never takes its place.
C12_StoredFskeyUsed ==
  [][\A o \in OpIds :
       /\ (ReadsMeta(o) /\ ops[o].kind = "get" /\ HasForeignFskey(ops[o].key)) =>
            /\ ops'[o].pc = "probe"
            /\ ops'[o].fskey = contracts[ops[o].key].text.fskey
       /\ (ProbeReturns(o) /\ HasForeignFskey(ops[o].key)) =>
            /\ Succeeded(ops'[o].cb)
            /\ handles'[ops'[o].cb[1].item.h].pkey = contracts[ops[o].key].text.fskey
       /\ (DelStep(o) /\ ops[o].pc = "peek" /\ HasForeignFskey(ops[o].key)) =>
            ops'[o].fskey = contracts[ops[o].key].text.fskey
       /\ (DelStep(o) /\ ops[o].pc = "shard") =>
            \A p \in PhysKeys : p # ops[o].fskey => shards'[p] = shards[p]
    ]_vars

\* This step is a callback of a put, get or del of key k, or an event of a
\* stream that a get of k has returned.
StepOn(k) ==
  \/ \E o \in OpIds :
       /\ ops[o].kind \in {"put", "get", "del"} /\ ops[o].key = k
       /\ ops[o].pc \notin {"idle", "done"}
       /\ ops'[o] # ops[o]
  \/ \E h \in HandleIds :
       /\ ops' = ops
       /\ handles[h].key = k /\ handles'[h] # handles[h]

\* The physical key of the shard of a stored record.
ShardKey(k) == ResolveFskey(JsonParse(contracts[k].text), k)

\* C13: a step of a put, get or del of key k, or of a write through the
\* stream of a get of k, changes neither the metadata record nor the shard
\* of any other key; this includes the del of a key without a record,
\* which takes the key itself for the physical key.
C13_DistinctKeysIndependent ==
  [][\A k, k2 \in Keys :
       (k # k2 /\ StepOn(k)) =>
         /\ contracts'[k2] = contracts[k2]
         /\ contracts[k2].exists => shards'[ShardKey(k2)] = shards[ShardKey(k2)]
    ]_vars

\* C14: on every adapter, a size(k) of a key without an entry ends with a
\* not-found error and reports no byte count.
C14_SizeOfMissing ==
  [][\A o \in OpIds :
       (Completes(o, "size") /\ ~contracts[ops[o].key].exists
        /\ \A p \in ShardKeysOf(ops[o].key) : ~shards[p].exists) =>
         /\ Len(ops'[o].cb) = 1
         /\ IsNotFound(ops'[o].cb[1].err)
         /\ ops'[o].cb[1].size = NoSize
    ]_vars

\* C15: after put(k, r) and a completed write of n bytes through the stream
\* of get(k), size(k) succeeds and reports at least n.
C15_SizeAtLeastWritten ==
  [][\A o \in OpIds :
       (Completes(o, "size") /\ hist[ops[o].key].st = "put"
        /\ lastWrite.key = ops[o].key) =>
         /\ Succeeded(ops'[o].cb)
         /\ ops'[o].cb[1].size >= Len(lastWrite.data)
    ]_vars

\* C16: a keys() whose listing fails ends with one terminal event on its
\* stream, the error; it never ends in an exception thrown outside the
\* stream.
C16_ListingErrorOnStream ==
  \A o \in OpIds :
    ops[o].kind = "keys" =>
      /\ ops[o].pc # "thrown"
      /\ ops[o].pc = "done" => Len(ops[o].cb) = 1

\* This step starts a call of this kind in slot o.
Starts(o, kind) == ops[o].pc = "idle" /\ ops'[o].kind = kind

\* C17: on the bucket adapter, open() on an open adapter and close() on a
\* closed one succeed at once, without a call of LevelDB, and leave the flag
\* as it is; a failed open or close of LevelDB leaves the flag as it is; and
\* the flag is true exactly when the last open or close that has changed
\* the connection was an open, or none has since construction.
C17_OpenCloseIdempotent ==
  /\ [](backend = BUCKET => (isOpen <=> lastConn # "close"))
  /\ [][\A o \in OpIds :
          backend = BUCKET =>
            /\ (Starts(o, "open") /\ isOpen) =>
                 /\ ops'[o].pc = "done" /\ ops'[o].cb = <<CbOk>>
                 /\ ~ops'[o].flag /\ isOpen'
            /\ (Starts(o, "close") /\ ~isOpen) =>
                 /\ ops'[o].pc = "done" /\ ops'[o].cb = <<CbOk>>
                 /\ ~ops'[o].flag /\ ~isOpen'
            /\ (ops[o].pc = "db" /\ ops'[o].pc = "done") =>
                 /\ Len(ops'[o].cb) = 1
                 /\ ~Succeeded(ops'[o].cb) => isOpen' = isOpen
                 /\ Succeeded(ops'[o].cb) => (isOpen' <=> ops[o].kind = "open")
     ]_vars

\* A close of the adapter that an earlier close has closed has succeeded
\* without calling LevelDB.
C17_Witness ==
  \E o, q \in OpIds :
    /\ IsDone(o, "close") /\ ~ops[o].flag /\ ops[o].cb = <<CbOk>>
    /\ ~isOpen /\ lastConn = "close"
    /\ ops[q].kind = "none"

\* This step is a callback of a data operation in slot o.
DataStep(o) ==
  /\ ops[o].kind \in {"get", "peek", "put", "del", "size", "keys"}
  /\ ops[o].pc \notin {"idle", "done", "thrown"}
  /\ ops'[o] # ops[o]

\* C18: on the bucket adapter, while the adapter is closed, no callback of
\* a get, peek, put, del, size or keys changes a store, and each of these
\* calls ends with one "not open" error and nothing else.
C18_ClosedRefuses ==
  [][\A o \in OpIds :
       (backend = BUCKET /\ ~isOpen /\ DataStep(o)) =>
         /\ contracts' = contracts /\ shards' = shards
         /\ ops'[o].pc # "thrown"
         /\ ops'[o].pc = "done" => ops'[o].cb = <<CbErr("NotOpen")>>
    ]_vars

\* C19: on every adapter, no step of a peek(k) creates a stream or changes
\* a metadata record or a shard; the metadata read is its only backend
\* call, after which it calls back once, with the persisted record as it is
\* stored and no stream, whether or not a shard of k exists.
C19_PeekReadsOnly ==
  [][\A o \in OpIds :
       ((ops[o].kind = "peek" \/ Starts(o, "peek")) /\ ops'[o] # ops[o]) =>
         /\ contracts' = contracts /\ shards' = shards /\ handles' = handles
         /\ ops[o].pc = "read" =>
              /\ ops'[o].pc = "done"
              /\ Len(ops'[o].cb) = 1
              /\ contracts[ops[o].key].exists =>
                   ops'[o].cb[1] =
                     Cb("null", [value |-> contracts[ops[o].key].text.value,
                                 fskey |-> contracts[ops[o].key].text.fskey,
                                 shard |-> contracts[ops[o].key].text.shard,
                                 h |-> 0], {})
    ]_vars

\* A peek has returned the record of a key whose shard has been written.
C19_Witness ==
  \E o \in OpIds :
    /\ IsDone(o, "peek") /\ Succeeded(ops[o].cb)
    /\ hist[ops[o].key].st = "put" /\ hist[ops[o].key].wrote
    /\ shards[Derive(ops[o].key)].exists
    /\ ops[o].cb[1].item.shard = "null" /\ ops[o].cb[1].item.h = 0

\* The record of k is one without a stored fskey.
IsLegacy(k) == contracts[k].exists /\ contracts[k].text.fskey = NoFskey

\* C20: for a record without a stored fskey, the writable stream that
\* get(k) returns when the probe finds no shard is opened on the physical
\* key the probe examined, the logical key k; and once a write through
\* such a stream has completed, every later get(k) returns a readable
\* stream over the shard under k.
C20_LegacyWriteKey ==
  [][\A o \in OpIds :
       /\ (ProbeReturns(o) /\ IsLegacy(ops[o].key)
           /\ ~shards[ops[o].fskey].exists) =>
            /\ ops[o].fskey = ops[o].key
            /\ Succeeded(ops'[o].cb)
            /\ handles'[ops'[o].cb[1].item.h].mode = "w"
            /\ handles'[ops'[o].cb[1].item.h].pkey = ops[o].key
       /\ (Completes(o, "get") /\ IsLegacy(ops[o].key)
           /\ hist[ops[o].key].wrote) =>
            /\ Succeeded(ops'[o].cb)
            /\ ops'[o].cb[1].item.shard = "rstream"
            /\ handles'[ops'[o].cb[1].item.h].pkey = ops[o].key
    ]_vars

\* C21: when the metadata delete inside del(k) fails with an error other
\* than already-absent (the record was there and is still there after the
\* callback), the del ends there with that error as its only callback; it
\* does not go on to the shard delete, so no del that has reported an error
\* of its metadata delete is at its shard step, and the shard stays.
C21_DelMetaFailureFinal ==
  [][\A o \in OpIds :
       /\ (DelStep(o) /\ ops[o].pc = "meta"
           /\ contracts[ops[o].key].exists /\ contracts'[ops[o].key].exists) =>
            /\ ops'[o].pc = "done"
            /\ Len(ops'[o].cb) = 1
            /\ ops'[o].cb[1].err \in TransportErrs \cup {"NotOpen"}
            /\ shards' = shards
       /\ (DelStep(o) /\ ops[o].pc = "shard") => ops[o].cb = <<>>
    ]_vars

\* The calls of the filesystem adapters that take a callback and can meet a
\* failing unlink, directory removal or directory listing.
CallbackKinds == {"del", "flush", "size", "sizeall"}

\* C22: on the filesystem adapters, a _del, _flush or _size call never
\* invokes its callback a second time, and when it has ended (its last
\* backend callback has run, or it has ended in an exception) it has invoked
\* its callback exactly once, on the success path and on every error path.
C22_CallbackOnce ==
  \A o \in OpIds :
    (backend # BUCKET /\ ops[o].kind \in CallbackKinds) =>
      /\ Len(ops[o].cb) <= 1
      /\ ops[o].pc \in {"done", "thrown"} => Len(ops[o].cb) = 1

\* The first page of the listing whose request fails (0: none does).
FirstErr(pages) ==
  IF \E i \in 1..Len(pages) : pages[i].err # "null"
  THEN CHOOSE i \in 1..Len(pages) :
         /\ pages[i].err # "null"
         /\ \A j \in 1..(i - 1) : pages[j].err = "null"
  ELSE 0

\* The pages a call has to request: all, or those up to the failing one.
Visited(pages) == IF FirstErr(pages) = 0 THEN Len(pages) ELSE FirstErr(pages)

RECURSIVE SumPages(_)
SumPages(pages) ==
  IF pages = <<>> THEN 0 ELSE SeqSum(Head(pages).objs) + SumPages(Tail(pages))

RECURSIVE CountPages(_)
CountPages(pages) ==
  IF pages = <<>> THEN 0 ELSE Len(Head(pages).objs) + CountPages(Tail(pages))

\* C23: for every listing of finitely many pages, with or without the
\* prefix argument, _getBucketSize requests the pages in the order of their
\* continuation tokens, starting without one, never past a failing page,
\* never ends in an exception, and when it has ended it has invoked its
\* callback exactly once: with the first listing error, or with the sum of
\* the sizes and the count of the objects of all pages.
C23_BucketSizePagination ==
  listing.variant # "none" =>
    /\ listing.pc # "thrown"
    /\ Len(listing.cb) <= 1
    /\ Len(listing.reqs) <= Visited(listing.pages)
    /\ \A i \in 1..Len(listing.reqs) : listing.reqs[i] = (IF i = 1 THEN 0 ELSE i)
    /\ listing.pc = "done" =>
         /\ Len(listing.reqs) = Visited(listing.pages)
         /\ listing.cb =
              IF FirstErr(listing.pages) # 0
              THEN <<ListCb(listing.pages[FirstErr(listing.pages)].err, 0, 0)>>
              ELSE <<ListCb("null", SumPages(listing.pages), CountPages(listing.pages))>>

\* No call is in flight and no stream is held: every call has returned and
\* every stream has closed.
AtRest == Quiet /\ \A h \in HandleIds : handles[h].st = "free"

\* C24: starting from empty stores, in every state that put, get with shard
\* writes, del and flush reach, also when the calls interleave, once all
\* calls have returned and all streams have closed every shard in the shard
\* store sits under the resolved physical key of an existing metadata
\* record: there is no shard without its record.
C24_NoOrphanShard ==
  AtRest =>
    \A p \in PhysKeys :
      shards[p].exists =>
        \E k \in Keys : contracts[k].exists /\ ShardKey(k) = p

\* The stream h is a write stream that the caller lets go now.
Drops(h) ==
  /\ handles[h].mode = "w" /\ handles[h].st \in {"new", "open"}
  /\ handles'[h].st = "free"
  /\ lastWrite'.dropped = handles[h].key

\* C25: the step of get(k) that returns a writable stream changes no shard;
\* when the caller lets the stream of the last get go without writing, no
\* shard sits under the key the stream was opened on; and the next get(k)
\* returns a writable stream again, not a readable one over an empty shard.
C25_WritableHandleNoShard ==
  [][/\ \A o \in OpIds :
          (ProbeReturns(o) /\ Succeeded(ops'[o].cb)
           /\ ops'[o].cb[1].item.shard = "wstream") => shards' = shards
     /\ \A h \in HandleIds :
          Drops(h) => ~shards'[handles[h].pkey].exists
     /\ \A o \in OpIds :
          (Completes(o, "get") /\ lastWrite.dropped = ops[o].key
           /\ contracts[ops[o].key].exists) =>
            /\ Succeeded(ops'[o].cb)
            /\ ops'[o].cb[1].item.shard = "wstream"
    ]_vars

\* C26: in the item that get(k) returns, fskey is the physical key of the
\* stream attached to it, readable or writable, for records with and
\* without a stored fskey.
C26_ReportedFskeyIsStreamKey ==
  [][\A o \in OpIds :
       (ProbeReturns(o) /\ Succeeded(ops'[o].cb)) =>
         ops'[o].cb[1].item.fskey = handles'[ops'[o].cb[1].item.h].pkey
    ]_vars

\* This step starts the get in slot o or is one of its callbacks.
GetStep(o) ==
  /\ ops[o].kind = "get" \/ Starts(o, "get")
  /\ ops'[o] # ops[o]
  /\ ops'[o].kind = "get"

\* C27: on every adapter, no step of a get(k), in the Found or the Absent
\* branch, changes the metadata store; the fskey that the Absent branch
\* assigns is in the returned item only, the persisted record keeps the
\* fskey, or the absence of one, that it had.
C27_GetWritesNoMetadata ==
  [][\A o \in OpIds :
       GetStep(o) =>
         /\ contracts' = contracts
         /\ (ProbeReturns(o) /\ Succeeded(ops'[o].cb)
             /\ ops'[o].cb[1].item.shard = "wstream") =>
              /\ ops'[o].cb[1].item.fskey = Derive(ops[o].key)
              /\ contracts'[ops[o].key].text.fskey = contracts[ops[o].key].text.fskey
    ]_vars

\* A get has returned a writable stream and the fskey it has assigned for a
\* record that is stored without one.
C27_Witness ==
  \E o \in OpIds :
    /\ IsDone(o, "get") /\ Succeeded(ops[o].cb)
    /\ ops[o].cb[1].item.shard = "wstream"
    /\ ops[o].cb[1].item.fskey = Derive(ops[o].key)
    /\ IsLegacy(ops[o].key)

\* C28: the writable stream that get(k) of the bucket adapter returns emits
\* 'error' only when its upload has failed: every 'error' it emits carries
\* the error of the upload, and an upload that has succeeded emits none.
C28_ErrorEventOnlyOnFailure ==
  lastWrite.event.name = "error" => lastWrite.event.arg \in TransportErrs

\* C29: when gets of a key whose shard is absent overlap, at most one of
\* them holds a writable stream over the physical key of the shard: no two
\* write streams are open on the same shard at the same time.
C29_SingleWriter ==
  \A h, g \in HandleIds :
    (h # g /\ handles[h].mode = "w" /\ handles[g].mode = "w"
     /\ handles[h].st # "free" /\ handles[g].st # "free") =>
      handles[h].pkey # handles[g].pkey

\* C30: put(k, item) leaves the caller's item as it was: from the call to
\* its callback, item.shard and item.fskey hold the values they held before
\* the call.
C30_PutLeavesItem ==
  \A o \in OpIds :
    ops[o].kind = "put" =>
      /\ ops[o].arg.shard = ops[o].given.shard
      /\ ops[o].arg.fskey = ops[o].given.fskey

\* ---------------------------------------------------------------------
\* logLevelName (src/lib/logger.js)
\* ---------------------------------------------------------------------

\* myCustomLevels.levels: the configured numeric level of each name.
levels == [error |-> 1, warn |-> 2, info |-> 3, debug |-> 4]

\* Object.keys(myCustomLevels.levels): the names in the order in which the
\* object literal lists them.
LevelNames == <<"error", "warn", "info", "debug">>

\* a === b on the values the model hands to logLevelName: the same type and
\* the same value, with no conversion.
StrictEq(a, b) == a.type = b.type /\ a.n = b.n

\* The values logLevelName is called with.
LogInputs == {[type |-> t, n |-> n] : t \in {"number", "string"}, n \in (0 - MaxLevel)..MaxLevel}

\* The callback handed to filter: Array.prototype.filter calls it with the
\* element and the element's index, which the callback names key and value.
FilterCallback(key, value, level) == StrictEq(Num(value), level)

\* logLevelName(level) is entered: filter starts at index 0 on an empty result.
LogLevelNameCall ==
  /\ logger.pc = "call"
  /\ logger' = [logger EXCEPT !.pc = "filter", !.i = 0, !.result = <<>>]
  /\ UNCHANGED <<backend, listing, isOpen, lastConn, dirs, contracts, shards, ops, handles, hist, lastWrite>>

\* filter visits the element at index logger.i and keeps it when the
\* callback returns true.
FilterStep ==
  /\ logger.pc = "filter"
  /\ logger.i < Len(LevelNames)
  /\ LET key == LevelNames[logger.i + 1]
     IN logger' = [logger EXCEPT
          !.i = logger.i + 1,
          !.result = IF FilterCallback(key, logger.i, logger.level)
                     THEN Append(logger.result, key)
                     ELSE logger.result]
  /\ UNCHANGED <<backend, listing, isOpen, lastConn, dirs, contracts, shards, ops, handles, hist, lastWrite>>

\* filter is through: result[0] when result is not empty, undefined otherwise.
LogLevelNameReturn ==
  /\ logger.pc = "filter"
  /\ logger.i = Len(LevelNames)
  /\ logger' = [logger EXCEPT
       !.pc = "done",
       !.ret = IF Len(logger.result) > 0 THEN logger.result[1] ELSE "undefined"]
  /\ UNCHANGED <<backend, listing, isOpen, lastConn, dirs, contracts, shards, ops, handles, hist, lastWrite>>

InitLog ==
  /\ backend = FS2
  /\ isOpen = TRUE
  /\ lastConn = "none"
  /\ dirs = [c |-> TRUE, s |-> TRUE]
  /\ contracts = [k \in Keys |-> NoRec]
  /\ shards = [p \in PhysKeys |-> NoShard]
  /\ ops = [o \in OpIds |-> IdleOp]
  /\ handles = [h \in HandleIds |-> FreeHandle]
  /\ hist = [k \in Keys |-> NoHist]
  /\ lastWrite = NoWrite
  /\ listing = NoListing
  /\ \E l \in LogInputs : logger = [NoLogCall EXCEPT !.level = l, !.pc = "call"]

NextLog ==
  \/ LogLevelNameCall
  \/ FilterStep
  \/ LogLevelNameReturn

SpecLog == InitLog /\ [][NextLog]_vars

\* The names whose configured numeric level equals the level handed in.
NamesAt(level) == {n \in DOMAIN levels : StrictEq(Num(levels[n]), level)}

\* C31: logLevelName(level) returns, for every level in {1, 2, 3, 4}, the name
\* whose configured numeric level equals level (1 -> error, 2 -> warn,
\* 3 -> info, 4 -> debug), and undefined for any other level.
C31_LogLevelNameByConfiguredLevel ==
  logger.pc = "done" =>
    IF NamesAt(logger.level) # {}
    THEN logger.ret \in NamesAt(logger.level)
    ELSE logger.ret = "undefined"

====
